---- MODULE Spec2Model ----
(***************************************************************************)
(* CloudWise: the decision pipeline of frontend/app.py (Streamlit script,  *)
(* re-run from the top on every interaction of a session) and of           *)
(* backend/app/main.py (the /predict and /bid endpoints).                  *)
(*                                                                         *)
(* Units.  Prices are decimal numbers with five fractional digits, held as *)
(* the integer count of 10^-5 dollars (0.09 is 9000, 0.25 is 25000).  The  *)
(* backend's comparison  bid_price >= price_per_hour * 0.9  is computed in *)
(* IEEE-754 binary64, as Python and numpy compute it: ToDouble, FMul and   *)
(* FGe below.  Predicted usage is a whole number of CPU units and the      *)
(* three cost fields of a ledger row are kept as exact products in units   *)
(* of 10^-5 dollars.                                                       *)
(***************************************************************************)
EXTENDS Integers, Sequences, FiniteSets, TLC

VARIABLES
    use_df,         \* per session: the usage CSV as loaded (rows in file order)
    df,             \* per session: use_df sorted by timestamp (app.py:43)
    lag1,           \* per session: app.py:116
    lag24,          \* per session: app.py:117
    session_state,  \* per session: st.session_state, a function on the keys set
    pc,             \* per session: position of the running script ("idle": no run)
    \* the variables of the running script; they end with the run
    bid,            \* per session: resp.json() of this run's /bid request
    row,            \* per session: the ledger row built in this run
    bh_df,          \* per session: the dataframe about to be written
    exc,            \* per session: the exception caught at app.py:182
    ui,             \* per session: the messages this run has put on the page
    bh,             \* per session: the ledger as read for the chart (app.py:193)
    cum_savings,    \* per session: the cum_savings column of the chart
    hist,           \* data/bidding_history.csv: [exists, rows]
    now,            \* the clock behind pd.Timestamp.now()
    appended        \* history: the rows whose to_csv call completed

vars == <<use_df, df, lag1, lag24, session_state, pc, bid, row, bh_df, exc, ui,
          bh, cum_savings, hist, now, appended>>

(***************************************************************************)
(* Bounds                                                                  *)
(***************************************************************************)
\* longest usage series that is uploaded
MaxSamples == 26
\* number of ledger rows that are stamped in one behaviour
MaxClock == 2

Sessions == {"s1", "s2"}

Max(S) == CHOOSE x \in S : \A y \in S : y <= x

(***************************************************************************)
(* IEEE-754 binary64 on positive normal numbers.  A double is              *)
(* [m, e] with value m * 2^e, m a 53-bit natural number held in five       *)
(* little-endian limbs of 13 bits.                                         *)
(***************************************************************************)
LimbBase == 2^13

LimbAt(a, i) == IF i >= 1 /\ i <= Len(a) THEN a[i] ELSE 0

\* bit i (counted from 0) of the natural number in limbs a
BitOf(a, i) == (LimbAt(a, (i \div 13) + 1) \div 2^(i % 13)) % 2

BitLen(a) ==
    LET nz == {i \in 1..Len(a) : a[i] # 0}
    IN  IF nz = {} THEN 0
        ELSE 13 * (Max(nz) - 1) + Max({k \in 1..13 : a[Max(nz)] >= 2^(k - 1)})

GeLimbs(a, b) ==
    LET n == IF Len(a) >= Len(b) THEN Len(a) ELSE Len(b)
        diff == {i \in 1..n : LimbAt(a, i) # LimbAt(b, i)}
    IN  diff = {} \/ LimbAt(a, Max(diff)) > LimbAt(b, Max(diff))

\* the 13 bits of a that start at bit lo
LimbFrom(a, lo) ==
    LET w == lo \div 13
        s == lo % 13
    IN  (LimbAt(a, w + 1) \div 2^s) + (LimbAt(a, w + 2) % 2^s) * 2^(13 - s)

RECURSIVE ColSum(_, _, _, _)
ColSum(a, b, k, i) ==
    IF i > Len(a) THEN 0
    ELSE a[i] * LimbAt(b, k + 1 - i) + ColSum(a, b, k, i + 1)

\* the exact product of two naturals, limb k upward with carry c
RECURSIVE MulLimbs(_, _, _, _)
MulLimbs(a, b, k, c) ==
    IF k > Len(a) + Len(b)
    THEN <<>>
    ELSE LET s == ColSum(a, b, k, 1) + c
         IN  <<s % LimbBase>> \o MulLimbs(a, b, k + 1, s \div LimbBase)

RECURSIVE IncLimbs(_, _)
IncLimbs(a, i) ==
    IF i > Len(a) THEN a
    ELSE IF a[i] + 1 < LimbBase
         THEN [a EXCEPT ![i] = a[i] + 1]
         ELSE IncLimbs([a EXCEPT ![i] = 0], i + 1)

\* q * 2^e0 (q of 54 bits or more; sticky: a nonzero part below q was cut)
\* rounded to the nearest double, ties to even
RoundLimbs(q, sticky, e0) ==
    LET drop == BitLen(q) - 53
        m == [j \in 1..5 |-> IF j < 5 THEN LimbFrom(q, drop + 13 * (j - 1)) ELSE 1]
        st == sticky \/ \E i \in 0..(drop - 2) : BitOf(q, i) = 1
        up == BitOf(q, drop - 1) = 1 /\ (st \/ BitOf(q, drop) = 1)
        m2 == IF up THEN IncLimbs(m, 1) ELSE m
    IN  IF m2[5] = 2
        THEN [m |-> <<0, 0, 0, 0, 1>>, e |-> e0 + drop + 1]
        ELSE [m |-> m2, e |-> e0 + drop]

\* k limbs of floor(r * 2^(13k) / d) for r < d, and the remainder
RECURSIVE ShortDiv(_, _, _)
ShortDiv(r, d, k) ==
    IF k = 0
    THEN [q |-> <<>>, r |-> r]
    ELSE LET t == r * LimbBase
             rest == ShortDiv(t % d, d, k - 1)
         IN  [q |-> rest.q \o <<t \div d>>, r |-> rest.r]

\* float("n / 10^5"): the double nearest to the decimal number, n > 0
ToDouble(n) ==
    LET d == ShortDiv(n % 10^5, 10^5, 6)
    IN  RoundLimbs(d.q \o <<n \div 10^5>>, d.r # 0, -78)

\* x * y in binary64
FMul(x, y) == RoundLimbs(MulLimbs(x.m, y.m, 1, 0), FALSE, x.e + y.e)

\* x >= y in binary64
FGe(x, y) == x.e > y.e \/ (x.e = y.e /\ GeLimbs(x.m, y.m))

(***************************************************************************)
(* Usage series and lag features (app.py:43, 114-117; train.py:9-14)       *)
(***************************************************************************)
\* a usage CSV of n hourly samples whose cpu value tells the hour apart,
\* stored oldest first ("asc") or newest first ("desc")
UsageCsv(n, order) ==
    [i \in 1..n |->
        LET t == IF order = "asc" THEN i ELSE n + 1 - i
        IN  [timestamp |-> t, cpu |-> 10 + 2 * t]]

UsageInputs == {UsageCsv(n, o) : n \in 0..MaxSamples, o \in {"asc", "desc"}}

\* data/usage_sample.csv, the dataset used when nothing is uploaded
DefaultData == UsageCsv(MaxSamples, "asc")

\* DataFrame.sort_values(col): ascending, by insertion of each row in turn
RECURSIVE InsertBy(_, _, _)
InsertBy(r, sorted, col) ==
    IF sorted = <<>> THEN <<r>>
    ELSE IF r[col] < sorted[1][col]
         THEN <<r>> \o sorted
         ELSE <<sorted[1]>> \o InsertBy(r, Tail(sorted), col)

RECURSIVE SortValuesFrom(_, _, _)
SortValuesFrom(frame, col, n) ==
    IF n = 0 THEN <<>>
    ELSE InsertBy(frame[n], SortValuesFrom(frame, col, n - 1), col)

sort_values(frame, col) == SortValuesFrom(frame, col, Len(frame))

\* frame.iloc[i] for a negative position i (counted from the end)
Iloc(frame, i) == frame[Len(frame) + 1 + i]

Lag1(frame) == Iloc(frame, -1).cpu

Lag24Fallback(frame) ==
    IF Len(frame) >= 24 THEN Iloc(frame, -24).cpu ELSE 0

Lag24Shifted(frame) ==
    IF Len(frame) >= 24 THEN Iloc(frame, -23).cpu ELSE Lag1(frame)

Lag24(frame) ==
    IF Len(frame) >= 24 THEN Iloc(frame, -24).cpu ELSE Lag1(frame)

\* train.py: the features of the row at position t (1-based) of the sorted
\* series, cpu.shift(1) and cpu.shift(24); NaN rows are dropped
TrainLag1(frame, t) == frame[t - 1].cpu
TrainLag24(frame, t) == frame[t - 24].cpu

(***************************************************************************)
(* Backend (main.py)                                                       *)
(***************************************************************************)
\* data/marketplace_offers.csv: offer_id and price_per_hour of each row, in
\* file order; the second offer_1 row is shadowed by the first (iloc[0])
MarketRows ==
    << [offer_id |-> "offer_1", price_per_hour |-> 10000],
       [offer_id |-> "offer_2", price_per_hour |-> 3000],
       [offer_id |-> "offer_1", price_per_hour |-> 2000] >>

\* what the dashboard user types: Offer ID and Bid price (app.py:148-149)
BidInputs ==
    { [offer_id |-> "offer_1", bid_price |-> 9000],
      [offer_id |-> "offer_1", bid_price |-> 8999],
      [offer_id |-> "offer_2", bid_price |-> 3000],
      [offer_id |-> "offer_9", bid_price |-> 3000] }

\* what the forecaster answers (ml/model.joblib is opaque)
Predictions == {20, 50}

InCatalog(offer_id) == \E i \in 1..Len(MarketRows) : MarketRows[i].offer_id = offer_id

\* the position of df[df["offer_id"] == offer_id].iloc[0]
MatchedRow(offer_id) ==
    LET hits == {i \in 1..Len(MarketRows) : MarketRows[i].offer_id = offer_id}
    IN  CHOOSE i \in hits : \A j \in hits : i <= j

\* main.py:71, in binary64
accepted(bid_price, price_per_hour) ==
    FGe(ToDouble(bid_price), FMul(ToDouble(price_per_hour), ToDouble(90000)))

\* main.py:71 for every offer row and bid price that occurs
AcceptTable ==
    [i \in 1..Len(MarketRows), b \in {x.bid_price : x \in BidInputs} |->
        accepted(b, MarketRows[i].price_per_hour)]

HttpError(detail) == [detail |-> detail]

\* POST /bid: the JSON body of the response
bid_endpoint(offer_id, bid_price, market_exists) ==
    IF ~market_exists
    THEN HttpError("Marketplace CSV not found")
    ELSE IF ~InCatalog(offer_id)
    THEN HttpError("Offer not found")
    ELSE [offer_id |-> offer_id,
          bid_price |-> bid_price,
          accepted |-> AcceptTable[MatchedRow(offer_id), bid_price]]

(***************************************************************************)
(* Dashboard (app.py), one script run per interaction                      *)
(*                                                                         *)
(* A run is split where another session's run can come between: before the *)
(* ledger file is read (app.py:176-177), before it is rewritten            *)
(* (app.py:181) and before it is read again for the chart (app.py:192).    *)
(* Whether the backend answers and whether the ledger's storage works is   *)
(* the environment's choice at each step that needs them.  hist.rows holds *)
(* the rows of the CSV file with the fields as they were written, and the  *)
(* clock gives every row a timestamp of its own.                           *)
(***************************************************************************)
\* the on-demand rate 0.25 $/unit in units of 10^-5 $ (app.py:131, 159)
OnDemandRate == 25000

NoBid == [none |-> TRUE]
NoRow == [none |-> TRUE]
EmptyState == [k \in {} |-> 0]

\* dict.get(key) is truthy
Truthy(d, key) == key \in DOMAIN d /\ d[key] = TRUE

BidHasAcceptedKey(d) == "accepted" \in DOMAIN d

\* app.py:154
BidAccepted(d) == Truthy(d, "accepted")

\* app.py:134-135
StorePredictionStale(state, pred) ==
    IF "est_cost_on_demand" \in DOMAIN state
    THEN [state EXCEPT !["last_prediction"] = pred]
    ELSE [last_prediction |-> pred, est_cost_on_demand |-> pred * OnDemandRate]

StorePrediction(state, pred) ==
    [last_prediction |-> pred, est_cost_on_demand |-> pred * OnDemandRate]

\* app.py:158-161 and 165-174: the ledger row of an accepted bid, for a
\* session that holds a prediction
LedgerRow(state, b, ts) ==
    LET pred == state["last_prediction"]
        est_cost_on_demand == state["est_cost_on_demand"]
        bid_cost == pred * b["bid_price"]
        saved == est_cost_on_demand - bid_cost
    IN  [timestamp |-> ts,
         predicted_usage |-> state["last_prediction"],
         offer_id |-> b["offer_id"],
         bid_price_per_unit |-> b["bid_price"],
         accepted |-> TRUE,
         original_cost |-> state["est_cost_on_demand"],
         bid_cost |-> pred * b["bid_price"],
         cost_saved |-> saved]

RECURSIVE cumsum(_, _)
cumsum(frame, n) ==
    IF n = 0 THEN <<>>
    ELSE LET prev == cumsum(frame, n - 1)
         IN  Append(prev, (IF n = 1 THEN 0 ELSE prev[n - 1]) + frame[n].cost_saved)

bh_unsorted(frame) == frame

\* app.py:195
bh_sorted(frame) == sort_values(frame, "timestamp")

\* app.py:196
CumSavings(frame) == cumsum(bh_sorted(frame), Len(frame))

NoValue == "None"

\* app.py:182-184, "except Exception: pass": what stays on the page
ReportAsRequestFailure(shown) == shown \cup {"Bid request failed"}

SwallowAppendError(shown) == shown

\* app.py:43 on the default dataset
DefaultFrame == sort_values(DefaultData, "timestamp")

\* app.py:43 on every usage CSV that is uploaded
SortedInputs == [csv \in UsageInputs |-> sort_values(csv, "timestamp")]

Init ==
    /\ use_df = [s \in Sessions |-> DefaultData]
    /\ df = [s \in Sessions |-> DefaultFrame]
    /\ lag1 = [s \in Sessions |-> Lag1(DefaultFrame)]
    /\ lag24 = [s \in Sessions |-> Lag24(DefaultFrame)]
    /\ session_state = [s \in Sessions |-> EmptyState]
    /\ pc = [s \in Sessions |-> "idle"]
    /\ bid = [s \in Sessions |-> NoBid]
    /\ row = [s \in Sessions |-> NoRow]
    /\ bh_df = [s \in Sessions |-> <<>>]
    /\ exc = [s \in Sessions |-> "none"]
    /\ ui = [s \in Sessions |-> {}]
    /\ bh = [s \in Sessions |-> <<>>]
    /\ cum_savings = [s \in Sessions |-> <<>>]
    /\ hist = [exists |-> FALSE, rows |-> <<>>]
    /\ now = 0
    /\ appended = {}

\* the session uploads a usage CSV and the script runs on it: app.py:24-43
\* and 114-117 (an empty series ends the run at app.py:115)
Upload(s, csv) ==
    /\ pc[s] = "idle"
    /\ use_df' = [use_df EXCEPT ![s] = csv]
    /\ df' = [df EXCEPT ![s] = SortedInputs[csv]]
    /\ lag1' = [lag1 EXCEPT ![s] =
            IF Len(csv) = 0 THEN NoValue ELSE Lag1(SortedInputs[csv])]
    /\ lag24' = [lag24 EXCEPT ![s] =
            IF Len(csv) = 0 THEN NoValue ELSE Lag24(SortedInputs[csv])]
    /\ UNCHANGED <<session_state, pc, bid, row, bh_df, exc, ui, bh, cum_savings,
                   hist, now, appended>>

\* POST /predict: the JSON body of the response (main.py:41-48)
PredictAnswers ==
    {[prediction |-> p] : p \in Predictions} \cup {HttpError("Prediction error")}

\* a run with "Predict Next Hour Demand" pressed: app.py:122-137, then the
\* history table of app.py:140-144, which ends the run when the ledger file
\* exists and cannot be read (store_ok)
Predict(s, answer, reachable, store_ok) ==
    /\ pc[s] = "idle"
    /\ Len(df[s]) > 0
    /\ session_state' = [session_state EXCEPT ![s] =
            IF reachable /\ "prediction" \in DOMAIN answer
            THEN StorePrediction(session_state[s], answer["prediction"])
            ELSE session_state[s]]
    /\ ui' = [ui EXCEPT ![s] =
            (IF ~reachable
             THEN {"Prediction request failed"}
             ELSE IF "prediction" \in DOMAIN answer
             THEN {"Predicted next hour usage", "Estimated cost (on-demand)"}
             ELSE {"Backend returned no prediction."})
            \cup (IF hist.exists /\ ~store_ok THEN {"exception"} ELSE {})]
    /\ pc' = [pc EXCEPT ![s] = IF hist.exists /\ ~store_ok THEN "end" ELSE "chart"]
    /\ UNCHANGED <<use_df, df, lag1, lag24, bid, row, bh_df, exc, bh, cum_savings,
                   hist, now, appended>>

\* a run with "Place Auto-Bid" pressed, first part: the history table
\* (app.py:140-144), the request (152-153), the branch on the answer (154,
\* 185-188), the savings (157-162) and the row (165-174)
PlaceBid(s, offer_id, bid_price, reachable, market_exists, store_ok) ==
    /\ pc[s] = "idle"
    /\ Len(df[s]) > 0
    /\ IF hist.exists /\ ~store_ok
       THEN /\ ui' = [ui EXCEPT ![s] = {"exception"}]
            /\ pc' = [pc EXCEPT ![s] = "end"]
            /\ UNCHANGED <<bid, row, exc, now>>
       ELSE IF ~reachable
       THEN /\ ui' = [ui EXCEPT ![s] = {"Bid request failed"}]
            /\ pc' = [pc EXCEPT ![s] = "chart"]
            /\ UNCHANGED <<bid, row, exc, now>>
       ELSE LET b == bid_endpoint(offer_id, bid_price, market_exists)
            IN  /\ bid' = [bid EXCEPT ![s] = b]
                /\ IF ~BidAccepted(b)
                   THEN /\ ui' = [ui EXCEPT ![s] = {"Bid rejected"}]
                        /\ pc' = [pc EXCEPT ![s] = "chart"]
                        /\ UNCHANGED <<row, exc, now>>
                   ELSE IF "last_prediction" \in DOMAIN session_state[s]
                   THEN /\ now < MaxClock
                        /\ ui' = [ui EXCEPT ![s] = {"Bid accepted", "Estimated savings"}]
                        /\ row' = [row EXCEPT ![s] = LedgerRow(session_state[s], b, now + 1)]
                        /\ now' = now + 1
                        /\ pc' = [pc EXCEPT ![s] = "read"]
                        /\ UNCHANGED exc
                   ELSE \* pred and saved are unbound at app.py:172-173
                        /\ ui' = [ui EXCEPT ![s] = SwallowAppendError({"Bid accepted"})]
                        /\ exc' = [exc EXCEPT ![s] = "NameError"]
                        /\ pc' = [pc EXCEPT ![s] = "chart"]
                        /\ UNCHANGED <<row, now>>
    /\ UNCHANGED <<use_df, df, lag1, lag24, session_state, bh_df, bh, cum_savings,
                   hist, appended>>

\* app.py:175-180: the ledger is read and the row appended to the dataframe
ReadLedger(s, store_ok) ==
    /\ pc[s] = "read"
    /\ IF hist.exists /\ ~store_ok
       THEN /\ exc' = [exc EXCEPT ![s] = "OSError"]
            /\ ui' = [ui EXCEPT ![s] = SwallowAppendError(ui[s])]
            /\ pc' = [pc EXCEPT ![s] = "chart"]
            /\ UNCHANGED bh_df
       ELSE /\ bh_df' = [bh_df EXCEPT ![s] =
                    IF hist.exists THEN Append(hist.rows, row[s]) ELSE <<row[s]>>]
            /\ pc' = [pc EXCEPT ![s] = "write"]
            /\ UNCHANGED <<exc, ui>>
    /\ UNCHANGED <<use_df, df, lag1, lag24, session_state, bid, row, bh, cum_savings,
                   hist, now, appended>>

\* app.py:181: the dataframe replaces the ledger file
WriteLedger(s, store_ok) ==
    /\ pc[s] = "write"
    /\ IF store_ok
       THEN /\ hist' = [exists |-> TRUE, rows |-> bh_df[s]]
            /\ appended' = appended \cup {row[s]}
            /\ UNCHANGED <<exc, ui>>
       ELSE /\ exc' = [exc EXCEPT ![s] = "OSError"]
            /\ ui' = [ui EXCEPT ![s] = SwallowAppendError(ui[s])]
            /\ UNCHANGED <<hist, appended>>
    /\ pc' = [pc EXCEPT ![s] = "chart"]
    /\ UNCHANGED <<use_df, df, lag1, lag24, session_state, bid, row, bh_df, bh,
                   cum_savings, now>>

\* app.py:190-203: the cumulative savings chart, the last part of a run
Chart(s, store_ok) ==
    /\ pc[s] = "chart"
    /\ IF hist.exists /\ ~store_ok
       THEN /\ ui' = [ui EXCEPT ![s] = ui[s] \cup {"exception"}]
            /\ UNCHANGED <<bh, cum_savings>>
       ELSE /\ bh' = [bh EXCEPT ![s] = IF hist.exists THEN hist.rows ELSE <<>>]
            /\ cum_savings' = [cum_savings EXCEPT ![s] =
                    IF hist.exists THEN CumSavings(hist.rows) ELSE <<>>]
            /\ UNCHANGED ui
    /\ pc' = [pc EXCEPT ![s] = "end"]
    /\ UNCHANGED <<use_df, df, lag1, lag24, session_state, bid, row, bh_df, exc,
                   hist, now, appended>>

\* the run is over: its variables are gone and the session waits for the
\* next interaction
EndRun(s) ==
    /\ pc[s] = "end"
    /\ pc' = [pc EXCEPT ![s] = "idle"]
    /\ bid' = [bid EXCEPT ![s] = NoBid]
    /\ row' = [row EXCEPT ![s] = NoRow]
    /\ bh_df' = [bh_df EXCEPT ![s] = <<>>]
    /\ exc' = [exc EXCEPT ![s] = "none"]
    /\ ui' = [ui EXCEPT ![s] = {}]
    /\ bh' = [bh EXCEPT ![s] = <<>>]
    /\ cum_savings' = [cum_savings EXCEPT ![s] = <<>>]
    /\ UNCHANGED <<use_df, df, lag1, lag24, session_state, hist, now, appended>>

Next ==
    \/ \E s \in Sessions, a \in PredictAnswers, r \in BOOLEAN, ok \in BOOLEAN :
            Predict(s, a, r, ok)
    \/ \E s \in Sessions, x \in BidInputs, r \in BOOLEAN, m \in BOOLEAN, ok \in BOOLEAN :
            PlaceBid(s, x.offer_id, x.bid_price, r, m, ok)
    \/ \E s \in Sessions, ok \in BOOLEAN : ReadLedger(s, ok)
    \/ \E s \in Sessions, ok \in BOOLEAN : WriteLedger(s, ok)
    \/ \E s \in Sessions, ok \in BOOLEAN : Chart(s, ok)
    \/ \E s \in Sessions : EndRun(s)

Spec == Init /\ [][Next]_vars

\* the feature extractor alone: sessions upload usage series
NextLag == \E s \in Sessions, csv \in UsageInputs : Upload(s, csv)

SpecLag == Init /\ [][NextLag]_vars

(***************************************************************************)
(* Properties                                                              *)
(***************************************************************************)
HasOutcome(s) == "accepted" \in DOMAIN bid[s]

OutcomeAccepted(s) == HasOutcome(s) /\ bid[s]["accepted"] = TRUE

LedgerRows == {hist.rows[i] : i \in 1..Len(hist.rows)}

RowsInFlight == {row[s] : s \in Sessions} \ {NoRow}

\* C1: for every bid on an offer of the catalog, the evaluation answers
\* accepted = true exactly when bid_price >= price_per_hour * 0.9 (in exact
\* arithmetic: 10 * bid_price >= 9 * price_per_hour), so 0.09 on 0.10 is
\* accepted and 0.08999 is rejected.
C1_AcceptedIffNinetyPercent ==
    \A s \in Sessions :
        HasOutcome(s) =>
            (bid[s]["accepted"] <=>
                10 * bid[s]["bid_price"]
                    >= 9 * MarketRows[MatchedRow(bid[s]["offer_id"])].price_per_hour)

\* C2 as claimed: with 24 samples or more, lag1 is the cpu of the last
\* sample and lag24 the cpu of the sample 24 positions before the last.
C2_Lag24Is24BeforeLast ==
    \A s \in Sessions :
        Len(df[s]) >= 24 =>
            /\ lag1[s] = df[s][Len(df[s])].cpu
            /\ Len(df[s]) - 24 \in DOMAIN df[s]
            /\ lag24[s] = df[s][Len(df[s]) - 24].cpu

IsSortedByTimestamp(frame) ==
    \A i \in 1..Len(frame), j \in 1..Len(frame) :
        i < j => frame[i].timestamp <= frame[j].timestamp

\* C2 as amended: with 24 samples or more (24 included), lag1 is the cpu of
\* the last sample and lag24 the cpu of the 24th sample counted from the end,
\* 23 positions before the last: the values train.py's shift(1) and shift(24)
\* give the hour that follows the series.
C2_Lag24Is24thFromEnd ==
    \A s \in Sessions :
        Len(df[s]) >= 24 =>
            /\ IsSortedByTimestamp(df[s])
            /\ lag1[s] = df[s][Len(df[s])].cpu
            /\ lag24[s] = df[s][Len(df[s]) - 23].cpu
            /\ lag1[s] = TrainLag1(df[s], Len(df[s]) + 1)
            /\ lag24[s] = TrainLag24(df[s], Len(df[s]) + 1)

C2_Witness ==
    \E s \in Sessions :
        /\ Len(df[s]) = 24
        /\ use_df[s] # df[s]
        /\ lag24[s] = df[s][1].cpu
        /\ lag1[s] = df[s][24].cpu
        /\ lag24[s] # lag1[s]

\* C3: the ledger is append-only under every interleaving of appends: every
\* row whose append completed is still in the ledger.
C3_CompletedAppendsStay ==
    \A r \in appended : r \in LedgerRows

\* C4: a bid on an offer that is not in the catalog reaches the caller as an
\* offer-not-found error, never as an accepted or a rejected bid, and no
\* ledger row is made for it.
C4_UnknownOfferIsAnError ==
    \A s \in Sessions :
        bid[s] = HttpError("Offer not found") =>
            /\ "Bid rejected" \notin ui[s]
            /\ "Bid accepted" \notin ui[s]
            /\ row[s] = NoRow

RowArithmetic(r) ==
    /\ r.original_cost = r.predicted_usage * OnDemandRate
    /\ r.bid_cost = r.predicted_usage * r.bid_price_per_unit
    /\ r.cost_saved = r.original_cost - r.bid_cost

\* C6: every ledger row, written or about to be, has original_cost =
\* predicted_usage * 0.25, bid_cost = predicted_usage * bid_price and
\* cost_saved = original_cost - bid_cost, whatever the order of the
\* predictions and bids that led to it.
C6_RowArithmetic ==
    \A r \in LedgerRows \cup RowsInFlight \cup appended : RowArithmetic(r)

\* 50 units at 0.03: 12.50, 1.50 and 11.00
C6_Witness ==
    \E r \in LedgerRows :
        /\ r.predicted_usage = 50
        /\ r.bid_price_per_unit = 3000
        /\ r.original_cost = 1250000
        /\ r.bid_cost = 150000
        /\ r.cost_saved = 1100000
        /\ \E q \in LedgerRows : q.predicted_usage = 20

RECURSIVE SumSaved(_)
SumSaved(rows) ==
    IF rows = {} THEN 0
    ELSE LET r == CHOOSE x \in rows : TRUE
         IN  r.cost_saved + SumSaved(rows \ {r})

\* the rows among the k earliest of a frame
Earliest(frame, k) ==
    LET rows == {frame[i] : i \in 1..Len(frame)}
    IN  {r \in rows : Cardinality({q \in rows : q.timestamp < r.timestamp}) < k}

\* C7: the chart's cumulative series has, at each position k, the sum of
\* cost_saved of the k earliest rows of the ledger it was read from; its last
\* value is the sum over all rows.
C7_CumulativeSavings ==
    \A s \in Sessions :
        /\ Len(cum_savings[s]) = Len(bh[s])
        /\ \A k \in 1..Len(bh[s]) :
                cum_savings[s][k] = SumSaved(Earliest(bh[s], k))

C7_Witness ==
    \E s \in Sessions :
        /\ Len(bh[s]) = 2
        /\ bh[s][1].timestamp > bh[s][2].timestamp
        /\ bh[s][1].cost_saved # bh[s][2].cost_saved
        /\ cum_savings[s] = <<bh[s][2].cost_saved,
                              bh[s][2].cost_saved + bh[s][1].cost_saved>>

\* the backend accepts a bid of this row's offer and price
RowOfAcceptedBid(r) ==
    /\ r.accepted = TRUE
    /\ InCatalog(r.offer_id)
    /\ AcceptTable[MatchedRow(r.offer_id), r.bid_price_per_unit]

\* C8: every ledger row has accepted = true and is the row of a bid the
\* evaluator accepted; a run whose bid was rejected, named an unknown offer
\* or failed never reaches the append and builds no row.
C8_OnlyAcceptedBidsRecorded ==
    /\ \A r \in LedgerRows \cup appended : RowOfAcceptedBid(r)
    /\ \A s \in Sessions :
            (pc[s] \in {"read", "write"} \/ row[s] # NoRow \/ bh_df[s] # <<>>)
                => OutcomeAccepted(s)

C8_Witness ==
    \E s \in Sessions :
        /\ pc[s] = "end"
        /\ HasOutcome(s)
        /\ ~OutcomeAccepted(s)
        /\ "Bid rejected" \in ui[s]
        /\ row[s] = NoRow
        /\ Len(hist.rows) = 1

\* C9: with 1 to 23 samples, lag24 equals lag1, the cpu of the last sample.
C9_ShortSeriesLag24IsLag1 ==
    \A s \in Sessions :
        Len(df[s]) \in 1..23 =>
            /\ lag24[s] = lag1[s]
            /\ lag1[s] = df[s][Len(df[s])].cpu

C9_Witness ==
    \E s \in Sessions :
        /\ Len(df[s]) = 23
        /\ use_df[s] # df[s]
        /\ lag24[s] = lag1[s]
        /\ lag1[s] = df[s][23].cpu

\* C10: every bid the evaluator accepts in a run that meets no store failure
\* has appended its one row when the run ends, with or without an earlier
\* prediction in the session.
C10_AcceptedBidAppendsOneRow ==
    \A s \in Sessions :
        (pc[s] = "end" /\ OutcomeAccepted(s) /\ exc[s] # "OSError") =>
            /\ row[s] # NoRow
            /\ row[s] \in appended

====
